---- MODULE Spec2Model ----
(***************************************************************************)
(* Electronic door lock: the debounced 4x4 matrix keypad (Keypad.cpp) and  *)
(* the access controller of main.cpp (password buffer, failed-attempt      *)
(* counter, door-open and lockout timers, LED ticker callback).            *)
(*                                                                         *)
(* Time is counted in milliseconds.  It advances only inside the sleeps of *)
(* the code (ThisThread::sleep_for); computation and LCD traffic take no   *)
(* time.  A running Timer is advanced by every sleep; its reading          *)
(* saturates at a cap that lies above the threshold the code compares it   *)
(* with.                                                                   *)
(***************************************************************************)
EXTENDS Integers, Sequences, FiniteSets, TLC

(* ---------------- config.h ---------------- *)
PASSWORD == <<"1", "2", "3", "4">>
MAX_PASSWORD_LENGTH == 8
ROWS == 4
COLS == 4
OPEN_TIME_MS == 10000
LOCKOUT_TIME_MS == 30000
DEBOUNCE_TIME_MS == 50
MAX_FAILED_ATTEMPTS == 3

(* ---------------- durations written in main.cpp ---------------- *)
LOOP_DELAY_MS == 100
FLASH_TOGGLE_MS == 250
FAST_TOGGLE_MS == 100
VERDICT_SLEEP_MS == 2000
LOCKOUT_NOTICE_SLEEP_MS == 2000
EMPTY_SUBMIT_SLEEP_MS == 2000
EMPTY_CLEAR_SLEEP_MS == 1500
FLASH_MSG_SLEEP_MS == 2000
ATTEMPTS_MSG_SLEEP_MS == 2000
STATUS_MSG_SLEEP_MS == 3000

(* ---------------- test_keypad.cpp ---------------- *)
SCAN_PERIOD_MS == 50

(* ---------------- bounds of the model ---------------- *)
\* saturation values of the readings of lockoutTimer, doorTimer and the
\* keypad's debounce timer
LockoutTimerCap == 30100
DoorTimerCap == 10300
DebounceTimerCap == 100
\* keys that can be held down together in the keypad-only specification
MaxHeld == 2
\* longest pause between two getKey calls in the keypad-only
\* specification, in scan periods
MaxGap == 2

NoKey == "NUL"

Min(a, b) == IF a < b THEN a ELSE b

(* ---------------- keypad layout, main.cpp ---------------- *)
keys ==
  [r \in 0..(ROWS - 1) |->
     CASE r = 0 -> [c \in 0..(COLS - 1) |-> <<"1", "2", "3", "A">>[c + 1]]
       [] r = 1 -> [c \in 0..(COLS - 1) |-> <<"4", "5", "6", "B">>[c + 1]]
       [] r = 2 -> [c \in 0..(COLS - 1) |-> <<"7", "8", "9", "C">>[c + 1]]
       [] OTHER -> [c \in 0..(COLS - 1) |-> <<"*", "0", "#", "D">>[c + 1]]]

Positions == (0..(ROWS - 1)) \X (0..(COLS - 1))

AllKeys == {keys[p[1]][p[2]] : p \in Positions}

Digits == {"0", "1", "2", "3", "4", "5", "6", "7", "8", "9"}
Letters == {"A", "B", "C", "D"}

(* ---------------- Keypad::scanKeys ---------------- *)
\* Row `row` is driven LOW and the columns are read from `col` upwards; a
\* column reads LOW exactly when the contact between it and the LOW row is
\* closed.  The first LOW column ends the scan.  `closed` is the set of keys
\* that are held down, each named by its symbol.
RECURSIVE ScanFrom(_, _, _)
ScanFrom(row, col, closed) ==
  IF row >= ROWS THEN NoKey
  ELSE IF col >= COLS THEN ScanFrom(row + 1, 0, closed)
  ELSE IF keys[row][col] \in closed THEN keys[row][col]
  ELSE ScanFrom(row, col + 1, closed)

scanKeys(closed) == ScanFrom(0, 0, closed)

AllHigh == [r \in 0..(ROWS - 1) |-> 1]

(* ---------------- Keypad::getKey ---------------- *)
\* getKey reporting a held key again once the debounce window has passed
getKeyRepeatsAfterWindow(scanned, last, dbms) ==
  IF scanned # NoKey
  THEN IF scanned # last
       THEN [ret |-> scanned, last |-> scanned, reset |-> TRUE]
       ELSE IF dbms > DEBOUNCE_TIME_MS
            THEN [ret |-> scanned, last |-> last, reset |-> TRUE]
            ELSE [ret |-> NoKey, last |-> last, reset |-> FALSE]
  ELSE [ret |-> NoKey, last |-> NoKey, reset |-> FALSE]

\* getKey without `_lastKey = '\0'` in the no-key branch
getKeyKeepsLast(scanned, last, dbms) ==
  IF scanned # NoKey
  THEN IF scanned # last
       THEN [ret |-> scanned, last |-> scanned, reset |-> TRUE]
       ELSE [ret |-> NoKey, last |-> last, reset |-> FALSE]
  ELSE [ret |-> NoKey, last |-> last, reset |-> FALSE]

\* ret: the returned symbol; last: the new _lastKey; reset: whether the
\* debounce timer was reset.  dbms is the reading of the debounce timer.
\* getKey reporting a held key again while the debounce window is open
getKeyRepeatsInWindow(scanned, last, dbms) ==
  IF scanned # NoKey
  THEN IF scanned # last
       THEN [ret |-> scanned, last |-> scanned, reset |-> TRUE]
       ELSE IF dbms > DEBOUNCE_TIME_MS
            THEN [ret |-> NoKey, last |-> last, reset |-> FALSE]
            ELSE [ret |-> scanned, last |-> last, reset |-> FALSE]
  ELSE [ret |-> NoKey, last |-> NoKey, reset |-> FALSE]

getKey(scanned, last, dbms) ==
  IF scanned # NoKey
  THEN IF scanned # last
       THEN [ret |-> scanned, last |-> scanned, reset |-> TRUE]
       ELSE IF dbms > DEBOUNCE_TIME_MS
            THEN [ret |-> NoKey, last |-> last, reset |-> FALSE]
            ELSE [ret |-> NoKey, last |-> last, reset |-> FALSE]
  ELSE [ret |-> NoKey, last |-> NoKey, reset |-> FALSE]

(* ---------------- mbed Timer ---------------- *)
TimerReset(t) == [t EXCEPT !.ms = 0]
TimerStart(t) == [t EXCEPT !.running = TRUE]
TimerStop(t) == [t EXCEPT !.running = FALSE]
\* d milliseconds pass
Adv(t, d, cap) == IF t.running THEN [t EXCEPT !.ms = Min(@ + d, cap)] ELSE t

VARIABLES
  inputPassword,    \* main.cpp: user input buffer
  failedAttempts,   \* main.cpp: failed login counter
  isDoorOpen,       \* main.cpp: door state flag
  isLockedOut,      \* main.cpp: lockout state flag
  doorTimer,        \* main.cpp: Timer for auto-close
  lockoutTimer,     \* main.cpp: Timer for the lockout period
  ledTicker,        \* main.cpp: Ticker; 0 = detached, else the period in ms
  fastFlash,        \* handleSpecialKeys: static bool of case 'B'
  led,              \* DigitalOut led
  lockControl,      \* DigitalOut lockControl (relay)
  lcd,              \* screens written to the LCD by the last step, in order
  key,              \* main: the symbol getKey returned in this iteration
  pc,               \* main loop position: "poll" (timer checks) or "key"
  lastKey,          \* Keypad::_lastKey
  debounceTimer,    \* Keypad::_debounceTimer
  rowPins,          \* Keypad::_rowPins output levels between scans
  contacts,         \* the keys held down (the physical keypad)
  scan,             \* Keypad::scanKeys in progress: position, loop indices
  uptime,           \* ms since the main loop started, saturating
  iterTimerEv,      \* history: timer transition taken by this iteration's poll
  iterTransitions,  \* history: changes of mode in this iteration
  consecWrong,      \* history: wrong submissions since the last grant/expiry
  wrongSinceReset,  \* history: the same, also restarted by the 'C' reset
  sinceGrant,       \* history: ms since the grant while the door is open
  sinceLock,        \* history: ms since lockout entry while locked out
  submitted,        \* history: the buffer this iteration's '#' handed to
                    \* checkPassword, <<>> if none
  typed,            \* history: the digits dispatched since the last clear,
                    \* submission or lockout expiry, cut at the buffer size
  heldOpen,         \* history: the keys first scanned closed at a keypad
                    \* read made with the door open and closed at every
                    \* keypad read since
  reports           \* history: symbols reported per key in its current press

ctlVars == <<inputPassword, failedAttempts, isDoorOpen, isLockedOut,
             doorTimer, lockoutTimer, ledTicker, fastFlash, led, lockControl,
             lcd, key, pc>>
padVars == <<lastKey, debounceTimer, rowPins, contacts, scan, uptime>>
histVars == <<iterTimerEv, iterTransitions, consecWrong, wrongSinceReset,
              sinceGrant, sinceLock, submitted, typed, heldOpen, reports>>
vars == <<ctlVars, padVars, histVars>>


(* ---------------- the user at the keypad ---------------- *)
IsPrefix(w, u) == Len(w) <= Len(u) /\ SubSeq(u, 1, Len(w)) = w

\* The digits a user who types the words of W may press next when the
\* buffer holds buf; a user facing a full buffer may press one more digit.
NextDigits(W, buf) ==
  {d \in Digits : \E u \in W : IsPrefix(Append(buf, d), u)}
    \cup (IF Len(buf) >= MAX_PASSWORD_LENGTH THEN {"9"} ELSE {})

\* Specification Spec: the user types a wrong word or the credential, may
\* submit, clear and press the letter keys A, C and D ('B' is pressed in
\* SpecTyping), and holds at most one key at a time.  The user walks up to
\* the keypad once the timers started at boot have run past their
\* thresholds.
UserWords == {<<"9">>, <<"1", "2", "3", "4">>}

UserArrived == uptime >= LockoutTimerCap

ContactChoices ==
  {{}} \cup (IF UserArrived
             THEN {{k} : k \in {"#", "*", "A", "C", "D"}
                                 \cup NextDigits(UserWords, inputPassword)}
             ELSE {})

\* Specification SpecTyping: the user types up to and beyond a full buffer,
\* clears and presses all four letter keys, and never submits.
TypingWords == {<<"1", "2", "3", "4", "5", "6", "7", "8">>}

TypingChoices ==
  {{}} \cup (IF UserArrived
             THEN {{k} : k \in {"*"} \cup Letters
                                 \cup NextDigits(TypingWords, inputPassword)}
             ELSE {})

\* Specification SpecEntering: the user of SpecTyping, who also presses '#'
\* while the buffer is empty.
EnteringChoices ==
  TypingChoices \cup (IF UserArrived /\ inputPassword = <<>> THEN {{"#"}}
                      ELSE {})

\* Specification SpecBoot: the user is at the keypad from the moment the
\* loop starts, types 1, 2, 3, clears, presses 'B', waits at will and never
\* submits.
BootWords == {<<"1", "2", "3">>}

BootChoices ==
  {{}} \cup {{k} : k \in {"*", "B"} \cup NextDigits(BootWords, inputPassword)}

\* Specification SpecSubmit: the user types a word that extends the
\* credential or differs from it in the last or in the first position,
\* submits after any number of digits, and touches no key while the door is
\* open or the controller is locked out.
SubmitWords ==
  {<<"1", "2", "3", "4", "5">>, <<"1", "2", "3", "9">>, <<"9", "2", "3", "4">>}

SubmitChoices ==
  {{}} \cup (IF UserArrived /\ ~isDoorOpen /\ ~isLockedOut
             THEN {{k} : k \in {"#"} \cup NextDigits(SubmitWords, inputPassword)}
             ELSE {})

\* Specification SpecBuffer: in EnteringPassword the user types up to a
\* full buffer and one digit more, clears, submits after any number of
\* digits and presses the letter keys; while the door is open or the
\* controller is locked out the user presses '1' on the empty buffer and '*'.
BufferChoices ==
  {{}} \cup (IF ~UserArrived THEN {}
             ELSE IF isDoorOpen \/ isLockedOut
             THEN {{k} : k \in {"*"} \cup NextDigits({<<"1">>}, inputPassword)}
             ELSE {{k} : k \in {"#", "*"} \cup Letters
                                 \cup NextDigits(TypingWords, inputPassword)})

\* Specification SpecFlash: in EnteringPassword the user types the
\* credential, submits after any number of digits and presses 'B'; while
\* the door is open the user presses 'B'; the user touches no key while the
\* controller is locked out.
FlashChoices ==
  {{}} \cup (IF ~UserArrived \/ isLockedOut THEN {}
             ELSE IF isDoorOpen THEN {{"B"}}
             ELSE {{k} : k \in {"#", "B"}
                                 \cup NextDigits({PASSWORD}, inputPassword)})

\* Specification SpecHold: the user types the credential and submits; while
\* the door is open, and afterwards as long as '5' stays down, the user holds
\* any of the keys '1' and '5', also both at once; the user touches no key
\* while the controller is locked out.
HoldSets == SUBSET {"1", "5"}

HoldChoices ==
  {{}} \cup (IF ~UserArrived \/ isLockedOut THEN {}
             ELSE IF isDoorOpen THEN HoldSets
             ELSE {{k} : k \in {"#"} \cup NextDigits({PASSWORD}, inputPassword)}
                    \cup (IF "5" \in contacts THEN HoldSets ELSE {}))

Zero == [k \in AllKeys |-> 0]

\* no scan in progress
ScanIdle == [pc |-> "idle", row |-> 0, i |-> 0, col |-> 0, ret |-> NoKey]

(* ---------------- initial state: main() up to the loop ---------------- *)
\* the loop entered without the closeLock() of boot: LED pin at its default
InitLedOff ==
  /\ inputPassword = <<>>
  /\ failedAttempts = 0
  /\ isDoorOpen = FALSE
  /\ isLockedOut = FALSE
  /\ doorTimer = [ms |-> 0, running |-> TRUE]
  /\ lockoutTimer = [ms |-> 0, running |-> TRUE]
  /\ ledTicker = 0
  /\ fastFlash = FALSE
  /\ led = 0
  /\ lockControl = 0
  /\ lcd = <<"System Ready!", "Enter Password:">>
  /\ key = NoKey
  /\ pc = "poll"
  /\ lastKey = NoKey
  /\ debounceTimer = [ms |-> DebounceTimerCap, running |-> TRUE]
  /\ rowPins = AllHigh
  /\ contacts = {}
  /\ scan = ScanIdle
  /\ uptime = 0
  /\ iterTimerEv = "none"
  /\ iterTransitions = 0
  /\ consecWrong = 0
  /\ wrongSinceReset = 0
  /\ sinceGrant = 0
  /\ sinceLock = 0
  /\ submitted = <<>>
  /\ typed = <<>>
  /\ heldOpen = {}
  /\ reports = Zero

Init ==
  /\ inputPassword = <<>>
  /\ failedAttempts = 0
  /\ isDoorOpen = FALSE
  /\ isLockedOut = FALSE
  /\ doorTimer = [ms |-> 0, running |-> TRUE]
  /\ lockoutTimer = [ms |-> 0, running |-> TRUE]
  /\ ledTicker = 0
  /\ fastFlash = FALSE
  /\ led = 1
  /\ lockControl = 0
  /\ lcd = <<"System Ready!", "Enter Password:">>
  /\ key = NoKey
  /\ pc = "poll"
  /\ lastKey = NoKey
  /\ debounceTimer = [ms |-> DebounceTimerCap, running |-> TRUE]
  /\ rowPins = AllHigh
  /\ contacts = {}
  /\ scan = ScanIdle
  /\ uptime = 0
  /\ iterTimerEv = "none"
  /\ iterTransitions = 0
  /\ consecWrong = 0
  /\ wrongSinceReset = 0
  /\ sinceGrant = 0
  /\ sinceLock = 0
  /\ submitted = <<>>
  /\ typed = <<>>
  /\ heldOpen = {}
  /\ reports = Zero


(* ---------------- the state the main thread works on ---------------- *)
\* The globals of main.cpp, the keypad's debounce timer and the history
\* clocks, as one record, so that the functions of main.cpp are operators
\* from state to state.
Cur ==
  [inputPassword |-> inputPassword, failedAttempts |-> failedAttempts,
   isDoorOpen |-> isDoorOpen, isLockedOut |-> isLockedOut,
   doorTimer |-> doorTimer, lockoutTimer |-> lockoutTimer,
   ledTicker |-> ledTicker, fastFlash |-> fastFlash, led |-> led,
   lockControl |-> lockControl, lcd |-> <<>>,
   debounceTimer |-> debounceTimer, uptime |-> uptime,
   consecWrong |-> consecWrong, wrongSinceReset |-> wrongSinceReset,
   sinceGrant |-> sinceGrant, sinceLock |-> sinceLock]

Commit(s) ==
  /\ inputPassword' = s.inputPassword
  /\ failedAttempts' = s.failedAttempts
  /\ isDoorOpen' = s.isDoorOpen
  /\ isLockedOut' = s.isLockedOut
  /\ doorTimer' = s.doorTimer
  /\ lockoutTimer' = s.lockoutTimer
  /\ ledTicker' = s.ledTicker
  /\ fastFlash' = s.fastFlash
  /\ led' = s.led
  /\ lockControl' = s.lockControl
  /\ lcd' = s.lcd
  /\ debounceTimer' = s.debounceTimer
  /\ uptime' = s.uptime
  /\ consecWrong' = s.consecWrong
  /\ wrongSinceReset' = s.wrongSinceReset
  /\ sinceGrant' = s.sinceGrant
  /\ sinceLock' = s.sinceLock

\* ThisThread::sleep_for(d): every running timer advances by d
sleep_for(s, d) ==
  [s EXCEPT !.doorTimer = Adv(@, d, DoorTimerCap),
            !.lockoutTimer = Adv(@, d, LockoutTimerCap),
            !.debounceTimer = Adv(@, d, DebounceTimerCap),
            !.uptime = Min(@ + d, LockoutTimerCap),
            !.sinceGrant = IF s.isDoorOpen THEN Min(@ + d, DoorTimerCap) ELSE @,
            !.sinceLock = IF s.isLockedOut THEN Min(@ + d, LockoutTimerCap)
                          ELSE @]

\* lcd.cls(); lcd.printf(screen)
show(s, screen) == [s EXCEPT !.lcd = Append(@, screen)]

\* updateLCD()
updateLCD(s) ==
  IF s.isLockedOut THEN show(s, "LOCKED OUT!")
  ELSE IF s.isDoorOpen THEN show(s, "Door Open")
  ELSE show(s, "Enter Password:")

(* ---------------- lock control ---------------- *)
\* openLock without doorTimer.reset()
openLockNoTimerReset(s) ==
  [s EXCEPT !.isDoorOpen = TRUE,
            !.lockControl = 1,
            !.ledTicker = FLASH_TOGGLE_MS,
            !.doorTimer = TimerStart(@),
            !.sinceGrant = 0]

\* openLock that attaches the ticker only when it is detached
openLockKeepsPeriod(s) ==
  [s EXCEPT !.isDoorOpen = TRUE,
            !.lockControl = 1,
            !.ledTicker = IF @ = 0 THEN FLASH_TOGGLE_MS ELSE @,
            !.doorTimer = TimerStart(TimerReset(@)),
            !.sinceGrant = 0]

openLock(s) ==
  [s EXCEPT !.isDoorOpen = TRUE,
            !.lockControl = 1,
            !.ledTicker = FLASH_TOGGLE_MS,
            !.doorTimer = TimerStart(TimerReset(@)),
            !.sinceGrant = 0]

\* closeLock that leaves isDoorOpen set
closeLockKeepFlag(s) ==
  [s EXCEPT !.lockControl = 0,
            !.ledTicker = 0,
            !.led = 1,
            !.doorTimer = TimerStop(@),
            !.sinceGrant = 0]

\* closeLock without `lockControl = 0`
closeLockKeepActuator(s) ==
  [s EXCEPT !.isDoorOpen = FALSE,
            !.ledTicker = 0,
            !.led = 1,
            !.doorTimer = TimerStop(@),
            !.sinceGrant = 0]

\* closeLock without `led = 1`
closeLockLeavesLed(s) ==
  [s EXCEPT !.isDoorOpen = FALSE,
            !.lockControl = 0,
            !.ledTicker = 0,
            !.doorTimer = TimerStop(@),
            !.sinceGrant = 0]

\* closeLock that flips the relay output
closeLockTogglesActuator(s) ==
  [s EXCEPT !.isDoorOpen = FALSE,
            !.lockControl = 1 - @,
            !.ledTicker = 0,
            !.led = 1,
            !.doorTimer = TimerStop(@),
            !.sinceGrant = 0]

closeLock(s) ==
  [s EXCEPT !.isDoorOpen = FALSE,
            !.lockControl = 0,
            !.ledTicker = 0,
            !.led = 1,
            !.doorTimer = TimerStop(@),
            !.sinceGrant = 0]

(* ---------------- resetSystem ---------------- *)
\* resetSystem without inputPassword.clear()
resetSystemKeepBuffer(s) ==
  updateLCD([s EXCEPT !.isLockedOut = FALSE,
                      !.failedAttempts = 0,
                      !.lockoutTimer = TimerStop(@),
                      !.consecWrong = 0,
                      !.wrongSinceReset = 0,
                      !.sinceLock = 0])

\* resetSystem without `isLockedOut = false`
resetSystemKeepFlag(s) ==
  updateLCD([s EXCEPT !.failedAttempts = 0,
                      !.inputPassword = <<>>,
                      !.lockoutTimer = TimerStop(@),
                      !.consecWrong = 0,
                      !.wrongSinceReset = 0])

\* resetSystem without `failedAttempts = 0`
resetSystemKeepCounter(s) ==
  updateLCD([s EXCEPT !.isLockedOut = FALSE,
                      !.inputPassword = <<>>,
                      !.lockoutTimer = TimerStop(@),
                      !.consecWrong = 0,
                      !.wrongSinceReset = 0,
                      !.sinceLock = 0])

resetSystem(s) ==
  updateLCD([s EXCEPT !.isLockedOut = FALSE,
                      !.failedAttempts = 0,
                      !.inputPassword = <<>>,
                      !.lockoutTimer = TimerStop(@),
                      !.consecWrong = 0,
                      !.wrongSinceReset = 0,
                      !.sinceLock = 0])


(* ---------------- checkPassword ---------------- *)
\* entry into the lockout without lockoutTimer.reset()
lockOutNoTimerReset(s) ==
  [s EXCEPT !.isLockedOut = TRUE,
            !.lockoutTimer = TimerStart(@),
            !.sinceLock = 0]

\* entry into the lockout: the flag, lockoutTimer.reset(), .start()
lockOut(s) ==
  [s EXCEPT !.isLockedOut = TRUE,
            !.lockoutTimer = TimerStart(TimerReset(@)),
            !.sinceLock = 0]

\* the threshold test with `>` for `>=`
TooManyTriesStrict(n) == n > MAX_FAILED_ATTEMPTS

\* the threshold test one attempt late
TooManyTriesOneLate(n) == n >= MAX_FAILED_ATTEMPTS + 1

\* the threshold test after a wrong password
TooManyTries(n) == n >= MAX_FAILED_ATTEMPTS

\* the correct-password branch
grantAccess(s) ==
  openLock(show([s EXCEPT !.failedAttempts = 0,
                          !.consecWrong = 0,
                          !.wrongSinceReset = 0],
                "Access Granted!"))

\* the wrong-password branch
rejectAccess(s) ==
  LET w == show([s EXCEPT !.failedAttempts = @ + 1,
                          !.consecWrong = Min(@ + 1, MAX_FAILED_ATTEMPTS),
                          !.wrongSinceReset = Min(@ + 1, MAX_FAILED_ATTEMPTS)],
                "Wrong Password!")
  IN IF TooManyTries(w.failedAttempts)
     THEN lockOut(show(sleep_for(w, LOCKOUT_NOTICE_SLEEP_MS), "TOO MANY TRIES!"))
     ELSE w

\* checkPassword without the lockout check at its head
checkPasswordUnguarded(s) ==
  LET v == IF s.inputPassword = PASSWORD THEN grantAccess(s)
           ELSE rejectAccess(s)
  IN updateLCD(sleep_for([v EXCEPT !.inputPassword = <<>>], VERDICT_SLEEP_MS))

\* checkPassword comparing only the first Len(PASSWORD) characters
checkPasswordComparesPrefix(s) ==
  IF s.isLockedOut
  THEN show(s, "LOCKED OUT!")
  ELSE LET v == IF IsPrefix(PASSWORD, s.inputPassword) THEN grantAccess(s)
                ELSE rejectAccess(s)
       IN updateLCD(sleep_for([v EXCEPT !.inputPassword = <<>>],
                              VERDICT_SLEEP_MS))

\* checkPassword without `inputPassword.clear()`
checkPasswordKeepsBuffer(s) ==
  IF s.isLockedOut
  THEN show(s, "LOCKED OUT!")
  ELSE LET v == IF s.inputPassword = PASSWORD THEN grantAccess(s)
                ELSE rejectAccess(s)
       IN updateLCD(sleep_for(v, VERDICT_SLEEP_MS))

checkPassword(s) ==
  IF s.isLockedOut
  THEN show(s, "LOCKED OUT!")
  ELSE LET v == IF s.inputPassword = PASSWORD THEN grantAccess(s)
                ELSE rejectAccess(s)
       IN updateLCD(sleep_for([v EXCEPT !.inputPassword = <<>>],
                              VERDICT_SLEEP_MS))

(* ---------------- handleSpecialKeys ---------------- *)
\* handleSpecialKeys whose 'C' also clears the input buffer
handleSpecialKeysClearsBuffer(s, k) ==
  updateLCD(
    CASE k = "A" -> show(s, "Door Lock v1.0")
      [] k = "B" ->
           sleep_for(
             IF ~s.fastFlash
             THEN show([s EXCEPT !.fastFlash = TRUE,
                                 !.ledTicker = FAST_TOGGLE_MS], "Fast Flash ON")
             ELSE show([s EXCEPT !.fastFlash = FALSE,
                                 !.ledTicker = FLASH_TOGGLE_MS], "Normal Flash"),
             FLASH_MSG_SLEEP_MS)
      [] k = "C" ->
           sleep_for(
             IF s.failedAttempts > 0
             THEN show([s EXCEPT !.failedAttempts = 0,
                                 !.inputPassword = <<>>,
                                 !.wrongSinceReset = 0], "Attempts Reset")
             ELSE show(s, "No Attempts"),
             ATTEMPTS_MSG_SLEEP_MS)
      [] k = "D" ->
           sleep_for(
             show(s, IF s.isDoorOpen THEN "Door: OPEN"
                     ELSE IF s.isLockedOut THEN "Door: LOCKED"
                     ELSE "Door: CLOSED"),
             STATUS_MSG_SLEEP_MS)
      [] OTHER -> s)

handleSpecialKeys(s, k) ==
  updateLCD(
    CASE k = "A" -> show(s, "Door Lock v1.0")
      [] k = "B" ->
           sleep_for(
             IF ~s.fastFlash
             THEN show([s EXCEPT !.fastFlash = TRUE,
                                 !.ledTicker = FAST_TOGGLE_MS], "Fast Flash ON")
             ELSE show([s EXCEPT !.fastFlash = FALSE,
                                 !.ledTicker = FLASH_TOGGLE_MS], "Normal Flash"),
             FLASH_MSG_SLEEP_MS)
      [] k = "C" ->
           sleep_for(
             IF s.failedAttempts > 0
             THEN show([s EXCEPT !.failedAttempts = 0,
                                 !.wrongSinceReset = 0], "Attempts Reset")
             ELSE show(s, "No Attempts"),
             ATTEMPTS_MSG_SLEEP_MS)
      [] k = "D" ->
           sleep_for(
             show(s, IF s.isDoorOpen THEN "Door: OPEN"
                     ELSE IF s.isLockedOut THEN "Door: LOCKED"
                     ELSE "Door: CLOSED"),
             STATUS_MSG_SLEEP_MS)
      [] OTHER -> s)

(* ---------------- main loop, key dispatch ---------------- *)
\* the guard without `!isDoorOpen`
AcceptsDoorOpen(s, k) == k # NoKey

\* the guard `key && !isDoorOpen`
Accepts(s, k) == k # NoKey /\ ~s.isDoorOpen

\* the digit branch with `<=` for `<`
addDigitOffByOne(s, k) ==
  IF Len(s.inputPassword) <= MAX_PASSWORD_LENGTH
  THEN updateLCD([s EXCEPT !.inputPassword = Append(@, k)])
  ELSE s

\* the digit branch putting the digit in front
addDigitPrepends(s, k) ==
  IF Len(s.inputPassword) < MAX_PASSWORD_LENGTH
  THEN updateLCD([s EXCEPT !.inputPassword = <<k>> \o @])
  ELSE s

\* the digit branch
addDigit(s, k) ==
  IF Len(s.inputPassword) < MAX_PASSWORD_LENGTH
  THEN updateLCD([s EXCEPT !.inputPassword = Append(@, k)])
  ELSE s

\* the dispatch with '#' submitting the empty buffer as well
DispatchSubmitsEmpty(s, k) ==
  IF Accepts(s, k)
  THEN IF k = "#"
       THEN checkPassword(s)
       ELSE IF k = "*"
       THEN IF Len(s.inputPassword) > 0
            THEN updateLCD([s EXCEPT !.inputPassword = <<>>])
            ELSE updateLCD(sleep_for(show(s, "Nothing to Clear"),
                                     EMPTY_CLEAR_SLEEP_MS))
       ELSE IF k \in Digits
       THEN addDigit(s, k)
       ELSE IF k \in Letters
       THEN handleSpecialKeys(s, k)
       ELSE s
  ELSE s

Dispatch(s, k) ==
  IF Accepts(s, k)
  THEN IF k = "#"
       THEN IF Len(s.inputPassword) > 0
            THEN checkPassword(s)
            ELSE updateLCD(sleep_for(show(s, "Enter Password First!"),
                                     EMPTY_SUBMIT_SLEEP_MS))
       ELSE IF k = "*"
       THEN IF Len(s.inputPassword) > 0
            THEN updateLCD([s EXCEPT !.inputPassword = <<>>])
            ELSE updateLCD(sleep_for(show(s, "Nothing to Clear"),
                                     EMPTY_CLEAR_SLEEP_MS))
       ELSE IF k \in Digits
       THEN addDigit(s, k)
       ELSE IF k \in Letters
       THEN handleSpecialKeys(s, k)
       ELSE s
  ELSE s

(* ---------------- main loop, timer checks ---------------- *)
\* the lockout check without the isLockedOut flag
LockoutExpiredUnguarded(s) == s.lockoutTimer.ms >= LOCKOUT_TIME_MS

LockoutExpired(s) == s.isLockedOut /\ s.lockoutTimer.ms >= LOCKOUT_TIME_MS

DoorExpired(s) == s.isDoorOpen /\ s.doorTimer.ms >= OPEN_TIME_MS

\* the three `if`s at the head of the loop body, in order
PollTimers(s) ==
  LET s1 == IF LockoutExpired(s) THEN resetSystem(s) ELSE s
      s2 == IF DoorExpired(s1) THEN updateLCD(closeLock(s1)) ELSE s1
  IN IF s2.isDoorOpen THEN updateLCD(s2) ELSE s2

Mode(s) == <<s.isDoorOpen, s.isLockedOut>>

Poll ==
  /\ pc = "poll"
  /\ pc' = "key"
  /\ Commit(PollTimers(Cur))
  /\ iterTimerEv' = IF LockoutExpired(Cur) /\ DoorExpired(Cur) THEN "both"
                    ELSE IF LockoutExpired(Cur) THEN "lockoutReset"
                    ELSE IF DoorExpired(Cur) THEN "doorClose"
                    ELSE "none"
  /\ iterTransitions' = (IF LockoutExpired(Cur) THEN 1 ELSE 0)
                        + (IF DoorExpired(Cur) THEN 1 ELSE 0)
  /\ key' = NoKey
  /\ submitted' = <<>>
  /\ typed' = IF LockoutExpired(Cur) THEN <<>> ELSE typed
  /\ UNCHANGED heldOpen
  /\ UNCHANGED <<lastKey, rowPins, contacts, scan, reports>>

\* The loop runs with nobody at the keypad until the timers started at
\* boot have saturated: the iterations Poll, NoKeyStep, ... taken at once.
AwayIdle ==
  /\ pc = "poll"
  /\ ~UserArrived
  /\ contacts = {}
  /\ ~LockoutExpired(Cur) /\ ~DoorExpired(Cur) /\ ~isDoorOpen
  /\ Commit(sleep_for(Cur, LockoutTimerCap))
  /\ iterTimerEv' = "none"
  /\ iterTransitions' = 0
  /\ key' = NoKey
  /\ submitted' = <<>>
  /\ UNCHANGED <<pc, lastKey, rowPins, contacts, scan, typed, heldOpen,
                 reports>>

(* ---------------- main loop, keypad read and dispatch ---------------- *)
\* history of the digits: a dispatched digit is added to t unless t already
\* has MAX_PASSWORD_LENGTH digits; a dispatched '*' and a '#' dispatched
\* outside the lockout start t afresh
DigitsSince(t, s, k) ==
  IF ~Accepts(s, k) THEN t
  ELSE IF k \in Digits
  THEN IF Len(t) < MAX_PASSWORD_LENGTH THEN Append(t, k) ELSE t
  ELSE IF k = "*" \/ (k = "#" /\ ~s.isLockedOut) THEN <<>>
  ELSE t

\* the keys held since a keypad read made with the door open: h before the
\* read, made in state s, that finds c closed where the read before it found
\* `before`
HeldSinceOpen(h, s, before, c) ==
  IF s.isDoorOpen THEN (h \cap c) \cup (c \ before) ELSE h \cap c

\* keypad.getKey() on the contacts c, the dispatch of the returned symbol,
\* and the loop's closing sleep; Choices are the sets of keys the user may
\* be holding, K restricts the returned symbol
KeyStep(Choices, K) ==
  /\ pc = "key"
  /\ pc' = "poll"
  /\ \E c \in Choices :
       LET r == getKey(scanKeys(c), lastKey, debounceTimer.ms)
           s0 == IF r.reset
                 THEN [Cur EXCEPT !.debounceTimer = TimerReset(@)]
                 ELSE Cur
           s1 == Dispatch(s0, r.ret)
       IN /\ r.ret \in K
          /\ Commit(sleep_for(s1, LOOP_DELAY_MS))
          /\ contacts' = c
          /\ lastKey' = r.last
          /\ rowPins' = AllHigh
          /\ key' = r.ret
          /\ UNCHANGED <<scan, reports>>
          /\ submitted' = IF Accepts(s0, r.ret) /\ r.ret = "#"
                          THEN s0.inputPassword ELSE <<>>
          /\ typed' = DigitsSince(typed, s0, r.ret)
          /\ heldOpen' = HeldSinceOpen(heldOpen, s0, contacts, c)
          /\ iterTransitions' = iterTransitions
                                + (IF Mode(s1) # Mode(s0) THEN 1 ELSE 0)
  /\ UNCHANGED iterTimerEv

NoKeyStep == KeyStep(ContactChoices, {NoKey})
SubmitStep == KeyStep(ContactChoices, {"#"})
ClearStep == KeyStep(ContactChoices, {"*"})
DigitStep == KeyStep(ContactChoices, Digits)
SpecialStep == KeyStep(ContactChoices, Letters)

(* ---------------- ledFlashISR ---------------- *)
\* The Ticker callback; it can run between any two steps of the main loop
\* while the ticker is attached.
\* a callback that also clears the door flag
ledFlashISRClearsFlag ==
  /\ ledTicker # 0
  /\ led' = IF isDoorOpen THEN 1 - led ELSE led
  /\ isDoorOpen' = FALSE
  /\ UNCHANGED <<inputPassword, failedAttempts, isLockedOut,
                 doorTimer, lockoutTimer, ledTicker, fastFlash, lockControl,
                 lcd, key, pc>>
  /\ UNCHANGED <<padVars, histVars>>

\* the callback without its `if (isDoorOpen)`
ledFlashISRUnguarded ==
  /\ ledTicker # 0
  /\ led' = 1 - led
  /\ UNCHANGED <<inputPassword, failedAttempts, isDoorOpen, isLockedOut,
                 doorTimer, lockoutTimer, ledTicker, fastFlash, lockControl,
                 lcd, key, pc>>
  /\ UNCHANGED <<padVars, histVars>>

ledFlashISR ==
  /\ ledTicker # 0
  /\ led' = IF isDoorOpen THEN 1 - led ELSE led
  /\ UNCHANGED <<inputPassword, failedAttempts, isDoorOpen, isLockedOut,
                 doorTimer, lockoutTimer, ledTicker, fastFlash, lockControl,
                 lcd, key, pc>>
  /\ UNCHANGED <<padVars, histVars>>

Next ==
  \/ Poll
  \/ AwayIdle
  \/ NoKeyStep
  \/ SubmitStep
  \/ ClearStep
  \/ DigitStep
  \/ SpecialStep
  \/ ledFlashISR

Spec == Init /\ [][Next]_vars

\* The loop of main() never ends and every wait in it is a bounded sleep:
\* when the timer checks are due they run, and when the keypad read is due
\* it is made, with whatever symbol it returns and however often the
\* ticker callback runs.
TimerChecksRun == pc = "poll" /\ pc' = "key"
KeypadReadMade == pc = "key" /\ pc' = "poll"

SpecLive ==
  Init /\ [][Next]_vars /\ WF_pc(TimerChecksRun) /\ WF_pc(KeypadReadMade)


(* ---------------- typing without submitting ---------------- *)
TypingNoKeyStep == KeyStep(TypingChoices, {NoKey})
TypingClearStep == KeyStep(TypingChoices, {"*"})
TypingDigitStep == KeyStep(TypingChoices, Digits)
TypingSpecialStep == KeyStep(TypingChoices, Letters)

NextTyping ==
  \/ Poll
  \/ AwayIdle
  \/ TypingNoKeyStep
  \/ TypingClearStep
  \/ TypingDigitStep
  \/ TypingSpecialStep
  \/ ledFlashISR

SpecTyping == Init /\ [][NextTyping]_vars

(* ---------------- typing and submitting nothing ---------------- *)
EnteringNoKeyStep == KeyStep(EnteringChoices, {NoKey})
EnteringSubmitStep == KeyStep(EnteringChoices, {"#"})
EnteringClearStep == KeyStep(EnteringChoices, {"*"})
EnteringDigitStep == KeyStep(EnteringChoices, Digits)
EnteringSpecialStep == KeyStep(EnteringChoices, Letters)

NextEntering ==
  \/ Poll
  \/ AwayIdle
  \/ EnteringNoKeyStep
  \/ EnteringSubmitStep
  \/ EnteringClearStep
  \/ EnteringDigitStep
  \/ EnteringSpecialStep
  \/ ledFlashISR

SpecEntering == Init /\ [][NextEntering]_vars

(* ---------------- at the keypad from boot, no submission ---------------- *)
BootNoKeyStep == KeyStep(BootChoices, {NoKey})
BootClearStep == KeyStep(BootChoices, {"*"})
BootDigitStep == KeyStep(BootChoices, Digits)
BootSpecialStep == KeyStep(BootChoices, Letters)

NextBoot ==
  \/ Poll
  \/ BootNoKeyStep
  \/ BootClearStep
  \/ BootDigitStep
  \/ BootSpecialStep
  \/ ledFlashISR

SpecBoot == Init /\ [][NextBoot]_vars

(* ---------------- submitting near misses ---------------- *)
TryNoKeyStep == KeyStep(SubmitChoices, {NoKey})
TrySubmitStep == KeyStep(SubmitChoices, {"#"})
TryDigitStep == KeyStep(SubmitChoices, Digits)

NextSubmit ==
  \/ Poll
  \/ AwayIdle
  \/ TryNoKeyStep
  \/ TrySubmitStep
  \/ TryDigitStep
  \/ ledFlashISR

SpecSubmit == Init /\ [][NextSubmit]_vars

(* ---------------- filling, clearing and submitting the buffer ---------- *)
BufferNoKeyStep == KeyStep(BufferChoices, {NoKey})
BufferSubmitStep == KeyStep(BufferChoices, {"#"})
BufferClearStep == KeyStep(BufferChoices, {"*"})
BufferDigitStep == KeyStep(BufferChoices, Digits)
BufferSpecialStep == KeyStep(BufferChoices, Letters)

NextBuffer ==
  \/ Poll
  \/ AwayIdle
  \/ BufferNoKeyStep
  \/ BufferSubmitStep
  \/ BufferClearStep
  \/ BufferDigitStep
  \/ BufferSpecialStep
  \/ ledFlashISR

SpecBuffer == Init /\ [][NextBuffer]_vars

(* ---------------- the keypad on its own ---------------- *)
\* A key goes down; at most MaxHeld keys are held together.
PressKey ==
  /\ Cardinality(contacts) < MaxHeld
  /\ \E k \in AllKeys \ contacts :
       /\ contacts' = contacts \cup {k}
       /\ reports' = [reports EXCEPT ![k] = 0]
  /\ UNCHANGED <<ctlVars, lastKey, debounceTimer, rowPins, scan, uptime>>
  /\ UNCHANGED <<iterTimerEv, iterTransitions, consecWrong, wrongSinceReset,
                 sinceGrant, sinceLock, submitted, typed, heldOpen>>

\* A key comes up.
ReleaseKey ==
  /\ \E k \in contacts :
       /\ contacts' = contacts \ {k}
       /\ reports' = [reports EXCEPT ![k] = 0]
  /\ UNCHANGED <<ctlVars, lastKey, debounceTimer, rowPins, scan, uptime>>
  /\ UNCHANGED <<iterTimerEv, iterTransitions, consecWrong, wrongSinceReset,
                 sinceGrant, sinceLock, submitted, typed, heldOpen>>

\* A caller polls keypad.getKey() and then pauses for g scan periods
\* (test_keypad.cpp polls every SCAN_PERIOD_MS).
PadGetKey ==
  \E g \in 0..MaxGap :
    LET r == getKey(scanKeys(contacts), lastKey, debounceTimer.ms)
        t == IF r.reset THEN TimerReset(debounceTimer) ELSE debounceTimer
    IN /\ lastKey' = r.last
       /\ key' = r.ret
       /\ debounceTimer' = Adv(t, g * SCAN_PERIOD_MS, DebounceTimerCap)
       /\ rowPins' = AllHigh
       /\ reports' = IF r.ret = NoKey THEN reports
                     ELSE [reports EXCEPT ![r.ret] = Min(2, @ + 1)]
       /\ UNCHANGED <<inputPassword, failedAttempts, isDoorOpen, isLockedOut,
                      doorTimer, lockoutTimer, ledTicker, fastFlash, led,
                      lockControl, lcd, pc>>
       /\ UNCHANGED <<contacts, scan, uptime>>
       /\ UNCHANGED <<iterTimerEv, iterTransitions, consecWrong,
                      wrongSinceReset, sinceGrant, sinceLock, submitted,
                      typed, heldOpen>>

NextKeypad ==
  \/ PressKey
  \/ ReleaseKey
  \/ PadGetKey

SpecKeypad == Init /\ [][NextKeypad]_vars

(* ---------------- Keypad::scanKeys, pin by pin ---------------- *)
\* a row loop that drives the scanned row LOW and leaves the others alone
driveRowOnly(pins, i, row) == IF i = row THEN [pins EXCEPT ![i] = 0] ELSE pins

\* _rowPins[i]->write(i == row ? 0 : 1)
driveRow(pins, i, row) == [pins EXCEPT ![i] = IF i = row THEN 0 ELSE 1]

\* a restore loop that writes nothing
restoreRowSkipped(pins, i) == pins

\* _rowPins[i]->write(1), in the loop before either return
restoreRow(pins, i) == [pins EXCEPT ![i] = 1]

\* a column read that takes HIGH for a pressed key
colReadActiveHigh(pins, col, closed) ==
  IF \E r \in 0..(ROWS - 1) : pins[r] = 0 /\ keys[r][col] \in closed
  THEN 1 ELSE 0

\* _colPins[col]->read(): the pull-up holds the column HIGH unless a closed
\* contact joins it to a row that is driven LOW
colRead(pins, col, closed) ==
  IF \E r \in 0..(ROWS - 1) : pins[r] = 0 /\ keys[r][col] \in closed
  THEN 0 ELSE 1

\* what a step of scanKeys leaves alone
ScanFrame ==
  UNCHANGED <<ctlVars, lastKey, debounceTimer, contacts, uptime, histVars>>

\* scanKeys is called: row = 0, the first pass of the row-drive loop begins
ScanCall ==
  /\ scan.pc = "idle"
  /\ scan' = [pc |-> "drive", row |-> 0, i |-> 0, col |-> 0, ret |-> NoKey]
  /\ UNCHANGED rowPins
  /\ ScanFrame

\* one write of the row-drive loop
ScanDrive ==
  /\ scan.pc = "drive"
  /\ rowPins' = driveRow(rowPins, scan.i, scan.row)
  /\ scan' = IF scan.i + 1 < ROWS THEN [scan EXCEPT !.i = @ + 1]
             ELSE [scan EXCEPT !.pc = "settle", !.i = 0]
  /\ ScanFrame

\* wait_us(10)
ScanSettle ==
  /\ scan.pc = "settle"
  /\ scan' = [scan EXCEPT !.pc = "read", !.col = 0]
  /\ UNCHANGED rowPins
  /\ ScanFrame

\* one read of the column loop: a LOW column ends the scan with the key at
\* (row, col); after the last column the next row is driven, after the
\* last row the scan ends with no key
ScanRead ==
  /\ scan.pc = "read"
  /\ scan' = IF colRead(rowPins, scan.col, contacts) = 0
             THEN [scan EXCEPT !.pc = "restore", !.i = 0,
                               !.ret = keys[scan.row][scan.col]]
             ELSE IF scan.col + 1 < COLS THEN [scan EXCEPT !.col = @ + 1]
             ELSE IF scan.row + 1 < ROWS
             THEN [scan EXCEPT !.pc = "drive", !.row = @ + 1, !.i = 0,
                               !.col = 0]
             ELSE [scan EXCEPT !.pc = "restore", !.i = 0, !.ret = NoKey]
  /\ UNCHANGED rowPins
  /\ ScanFrame

\* one write of the restore loop
ScanRestore ==
  /\ scan.pc = "restore"
  /\ rowPins' = restoreRow(rowPins, scan.i)
  /\ scan' = IF scan.i + 1 < ROWS THEN [scan EXCEPT !.i = @ + 1]
             ELSE [scan EXCEPT !.pc = "return", !.i = 0]
  /\ ScanFrame

\* return _keys[row][col] or return '\0'
ScanReturn ==
  /\ scan.pc = "return"
  /\ scan' = ScanIdle
  /\ UNCHANGED rowPins
  /\ ScanFrame

\* Keys go down and come up at any moment, also in the middle of a scan.
NextScan ==
  \/ PressKey
  \/ ReleaseKey
  \/ ScanCall
  \/ ScanDrive
  \/ ScanSettle
  \/ ScanRead
  \/ ScanRestore
  \/ ScanReturn

SpecScan == Init /\ [][NextScan]_vars

(* ---------------- scanKeys on contacts that hold still ---------------- *)
\* Keys go down and come up between scans only.
HeldPress == scan.pc = "idle" /\ PressKey
HeldRelease == scan.pc = "idle" /\ ReleaseKey

NextScanHeld ==
  \/ HeldPress
  \/ HeldRelease
  \/ ScanCall
  \/ ScanDrive
  \/ ScanSettle
  \/ ScanRead
  \/ ScanRestore
  \/ ScanReturn

SpecScanHeld == Init /\ [][NextScanHeld]_vars

(* ---------------- Keypad::getKey called at any pace ---------------- *)
\* what a getKey call and the pause after it leave alone
GetKeyFrame ==
  /\ UNCHANGED <<inputPassword, failedAttempts, isDoorOpen, isLockedOut,
                 doorTimer, lockoutTimer, ledTicker, fastFlash, led,
                 lockControl, lcd>>
  /\ UNCHANGED <<contacts, scan, uptime, histVars>>

\* char key = keypad.getKey()
GetKeyCall ==
  /\ pc = "key"
  /\ pc' = "poll"
  /\ LET r == getKey(scanKeys(contacts), lastKey, debounceTimer.ms)
     IN /\ key' = r.ret
        /\ lastKey' = r.last
        /\ debounceTimer' = IF r.reset THEN TimerReset(debounceTimer)
                            ELSE debounceTimer
  /\ rowPins' = AllHigh
  /\ GetKeyFrame

\* the caller's pause before its next call: g scan periods, possibly none
GetKeyWait ==
  /\ pc = "poll"
  /\ pc' = "key"
  /\ \E g \in 0..MaxGap :
       debounceTimer' = Adv(debounceTimer, g * SCAN_PERIOD_MS, DebounceTimerCap)
  /\ key' = NoKey
  /\ UNCHANGED <<lastKey, rowPins>>
  /\ GetKeyFrame

NextGetKey ==
  \/ PressKey
  \/ ReleaseKey
  \/ GetKeyCall
  \/ GetKeyWait

SpecGetKey == Init /\ [][NextGetKey]_vars


(* ---------------- the auto-close, statement by statement ---------------- *)
\* Specification SpecFlash runs the auto-close of the main loop one
\* assignment of closeLock() at a time, so that the Ticker callback can run
\* between any two of them.

\* the timer checks of an iteration that does not close the door
PollNoClose == ~DoorExpired(Cur) /\ Poll

\* `isDoorOpen = false`, entered from the door-timer test of the main loop
Close109 ==
  /\ pc = "poll"
  /\ DoorExpired(Cur)
  /\ pc' = "close112"
  /\ isDoorOpen' = FALSE
  /\ UNCHANGED <<inputPassword, failedAttempts, isLockedOut, doorTimer,
                 lockoutTimer, ledTicker, fastFlash, led, lockControl, lcd,
                 key>>
  /\ UNCHANGED <<padVars, histVars>>

\* `lockControl = 0`
Close112 ==
  /\ pc = "close112"
  /\ pc' = "close119"
  /\ lockControl' = 0
  /\ UNCHANGED <<inputPassword, failedAttempts, isDoorOpen, isLockedOut,
                 doorTimer, lockoutTimer, ledTicker, fastFlash, led, lcd, key>>
  /\ UNCHANGED <<padVars, histVars>>

\* `ledTicker.detach()`
Close119 ==
  /\ pc = "close119"
  /\ pc' = "close120"
  /\ ledTicker' = 0
  /\ UNCHANGED <<inputPassword, failedAttempts, isDoorOpen, isLockedOut,
                 doorTimer, lockoutTimer, fastFlash, led, lockControl, lcd,
                 key>>
  /\ UNCHANGED <<padVars, histVars>>

\* `led = 1`, `doorTimer.stop()`, and back in the main loop updateLCD() and
\* the door-open test that now fails; the ticker is detached, so the
\* callback cannot run between these
Close120 ==
  /\ pc = "close120"
  /\ pc' = "key"
  /\ Commit(updateLCD([Cur EXCEPT !.led = 1,
                                  !.doorTimer = TimerStop(@),
                                  !.sinceGrant = 0]))
  /\ iterTimerEv' = "doorClose"
  /\ iterTransitions' = 1
  /\ key' = NoKey
  /\ submitted' = <<>>
  /\ UNCHANGED <<lastKey, rowPins, contacts, scan, typed, heldOpen,
                 reports>>

FlashNoKeyStep == KeyStep(FlashChoices, {NoKey})
FlashSubmitStep == KeyStep(FlashChoices, {"#"})
FlashDigitStep == KeyStep(FlashChoices, Digits)
FlashSpecialStep == KeyStep(FlashChoices, {"B"})

NextFlash ==
  \/ PollNoClose
  \/ Close109
  \/ Close112
  \/ Close119
  \/ Close120
  \/ AwayIdle
  \/ FlashNoKeyStep
  \/ FlashSubmitStep
  \/ FlashDigitStep
  \/ FlashSpecialStep
  \/ ledFlashISR

SpecFlash == Init /\ [][NextFlash]_vars


(* ---------------- main loop, keys held together ---------------- *)
HoldNoKeyStep == KeyStep(HoldChoices, {NoKey})
HoldSubmitStep == KeyStep(HoldChoices, {"#"})
HoldDigitStep == KeyStep(HoldChoices, Digits)

NextHold ==
  \/ Poll
  \/ AwayIdle
  \/ HoldNoKeyStep
  \/ HoldSubmitStep
  \/ HoldDigitStep
  \/ ledFlashISR

SpecHold == Init /\ [][NextHold]_vars


(***************************************************************************)
(* Properties                                                              *)
(***************************************************************************)
\* a main-loop step that reads the keypad and dispatches the symbol
KeyDispatched == pc = "key" /\ pc' = "poll"

\* the buffer, the counter and the mode are left as they were
SameBufferCounterMode ==
  /\ inputPassword' = inputPassword
  /\ failedAttempts' = failedAttempts
  /\ isDoorOpen' = isDoorOpen
  /\ isLockedOut' = isLockedOut

\* C1: in every reachable state at most one of the flags isDoorOpen and
\* isLockedOut is true.
C1_DoorOpenExcludesLockedOut == ~(isDoorOpen /\ isLockedOut)

\* a lockout entered after the door had been opened and closed once
C1_Witness ==
  /\ isLockedOut
  /\ ~isDoorOpen
  /\ ~doorTimer.running
  /\ key = "#"

\* C2: the buffer never holds more than MAX_PASSWORD_LENGTH digits, and a
\* digit delivered to a full buffer leaves the buffer as it was.
C2_BufferSaturates ==
  /\ [](Len(inputPassword) <= MAX_PASSWORD_LENGTH)
  /\ [][(KeyDispatched /\ key' \in Digits
         /\ Len(inputPassword) = MAX_PASSWORD_LENGTH)
        => inputPassword' = inputPassword]_vars

\* a digit has been delivered to the full buffer
C2_Witness ==
  /\ Len(inputPassword) = MAX_PASSWORD_LENGTH
  /\ key = "9"
  /\ pc = "poll"

\* C3: '#' delivered while the buffer equals the credential and the counter
\* is below MAX_FAILED_ATTEMPTS opens the door and zeroes the counter.
C3_CredentialOpensBelowThreshold ==
  [][(KeyDispatched /\ key' = "#" /\ inputPassword = PASSWORD
      /\ failedAttempts < MAX_FAILED_ATTEMPTS)
     => (isDoorOpen' /\ failedAttempts' = 0)]_vars

\* the lockout ends only when LOCKOUT_TIME_MS have passed since its entry
LockoutLastsFullTime ==
  (isLockedOut /\ ~isLockedOut') => sinceLock >= LOCKOUT_TIME_MS

\* C4 as stated: MAX_FAILED_ATTEMPTS wrong submissions in a row, with no
\* grant or lockout expiry between them, leave the controller locked out,
\* and every lockout lasts until LOCKOUT_TIME_MS have passed since its entry.
C4_ConsecutiveWrongLocksOut ==
  [][/\ consecWrong' >= MAX_FAILED_ATTEMPTS => isLockedOut'
     /\ LockoutLastsFullTime]_vars

\* C4, amended: the same for wrong submissions in a row with no grant, no
\* lockout expiry and no 'C' counter reset between them.
C4_WrongSinceResetLocksOut ==
  [][/\ wrongSinceReset' >= MAX_FAILED_ATTEMPTS => isLockedOut'
     /\ LockoutLastsFullTime]_vars

\* a lockout that has ended, after 'C' had zeroed the counter during it
C4_Witness ==
  /\ iterTimerEv = "lockoutReset"
  /\ ~isLockedOut
  /\ lockoutTimer.ms >= LOCKOUT_TIME_MS
  /\ ~lockoutTimer.running
  /\ ~doorTimer.running

\* C5: a symbol delivered while the door is open changes neither the buffer,
\* the counter, the flags, the actuator nor the flash ticker.
C5_DoorOpenIgnoresKeys ==
  [][(KeyDispatched /\ isDoorOpen /\ key' # NoKey)
     => (/\ SameBufferCounterMode
         /\ lockControl' = lockControl
         /\ ledTicker' = ledTicker
         /\ fastFlash' = fastFlash)]_vars

\* a digit has been delivered while the door was open
C5_Witness ==
  /\ isDoorOpen
  /\ pc = "poll"
  /\ key \in Digits

\* C6: the door is closed by the first poll at or after OPEN_TIME_MS since the
\* grant: never before OPEN_TIME_MS, never later than one loop period after.
C6_DoorClosesOnTime ==
  [][/\ (isDoorOpen /\ ~isDoorOpen')
          => (/\ sinceGrant >= OPEN_TIME_MS
              /\ sinceGrant <= OPEN_TIME_MS + LOOP_DELAY_MS)
     /\ (pc = "poll" /\ pc' = "key" /\ isDoorOpen
         /\ sinceGrant >= OPEN_TIME_MS) => ~isDoorOpen'
     /\ isDoorOpen' => sinceGrant' <= OPEN_TIME_MS + LOOP_DELAY_MS]_vars

\* the door has just been closed by the poll, for the second time or later
C6_Witness ==
  /\ iterTimerEv = "doorClose"
  /\ ~isDoorOpen
  /\ pc = "key"
  /\ ~lockoutTimer.running

\* C8 as stated: a key that arrives in the iteration whose poll closed the
\* door is ignored.
C8_KeyAfterCloseIgnored ==
  [][(KeyDispatched /\ iterTimerEv = "doorClose" /\ key' # NoKey)
     => SameBufferCounterMode]_vars

\* C8, amended: the door is closed before the key is dispatched, and the key
\* is then handled as in EnteringPassword: a digit becomes the first digit
\* of the buffer; no key changes the counter or the mode.
C8_KeyAfterCloseDispatched ==
  [][(KeyDispatched /\ iterTimerEv = "doorClose" /\ key' # NoKey)
     => (/\ ~isDoorOpen
         /\ lockControl = 0
         /\ failedAttempts' = failedAttempts
         /\ isDoorOpen' = isDoorOpen
         /\ isLockedOut' = isLockedOut
         /\ inputPassword' = IF key' \in Digits THEN <<key'>>
                             ELSE inputPassword)]_vars

\* a digit arrived in the iteration that closed the door
C8_Witness ==
  /\ iterTimerEv = "doorClose"
  /\ pc = "poll"
  /\ key \in Digits
  /\ inputPassword = <<key>>

\* C9 as stated: an iteration whose poll took a timer transition takes no
\* key-driven transition, and no iteration changes the mode twice.
C9_OneTransitionPerIteration ==
  [][/\ (KeyDispatched /\ iterTimerEv # "none") => SameBufferCounterMode
     /\ iterTransitions' <= 1]_vars

\* C9, amended: no iteration changes the mode more than once.
C9_OneModeChangePerIteration == iterTransitions <= 1

\* '#' arrived in the iteration whose poll ended the lockout
C9_Witness ==
  /\ iterTimerEv = "lockoutReset"
  /\ pc = "poll"
  /\ key = "#"
  /\ iterTransitions = 1

\* C10: a symbol delivered while the controller is locked out changes
\* neither the buffer, the counter nor the mode.
C10_LockedOutIgnoresKeys ==
  [][(KeyDispatched /\ isLockedOut /\ key' # NoKey)
     => SameBufferCounterMode]_vars

\* C7: no key has its symbol returned more than once between going down and
\* coming up.
C7_OneReportPerPress == \A k \in AllKeys : reports[k] <= 1

\* the controller is in EnteringPassword
EnteringPassword == ~isDoorOpen /\ ~isLockedOut

\* the symbol delivered by this step is rejected: '#' or '*' on the empty
\* buffer
EmptySubmit == KeyDispatched /\ key' = "#" /\ inputPassword = <<>>
EmptyClear == KeyDispatched /\ key' = "*" /\ inputPassword = <<>>

\* ... or a digit on the full buffer
DigitOnFull ==
  KeyDispatched /\ key' \in Digits
    /\ Len(inputPassword) = MAX_PASSWORD_LENGTH

\* the symbol delivered by this step submits a non-empty buffer that is not
\* the credential
WrongSubmit ==
  KeyDispatched /\ key' = "#" /\ inputPassword # <<>>
    /\ inputPassword # PASSWORD

\* C11: in EnteringPassword '#' on the empty buffer, '*' on the empty buffer
\* and a digit on the full buffer leave the buffer, the counter, the flags,
\* the actuator, the flash ticker and the run state of both timers as they
\* were.
C11_RejectedInputChangesNothing ==
  [][(EnteringPassword /\ (EmptySubmit \/ EmptyClear \/ DigitOnFull))
     => (/\ SameBufferCounterMode
         /\ lockControl' = lockControl
         /\ ledTicker' = ledTicker
         /\ fastFlash' = fastFlash
         /\ doorTimer'.running = doorTimer.running
         /\ lockoutTimer'.running = lockoutTimer.running)]_vars

\* '#' has been delivered on the empty buffer and answered with the prompt
C11_Witness ==
  /\ key = "#"
  /\ pc = "poll"
  /\ inputPassword = <<>>
  /\ failedAttempts = 0
  /\ lcd = <<"Enter Password First!", "Enter Password:">>

\* C12: the dispatch of a digit on the full buffer, of '*' on the empty
\* buffer and of a wrong submission writes at least one screen to the
\* display.
C12_InvalidInputReported ==
  [][(EnteringPassword /\ (DigitOnFull \/ EmptyClear \/ WrongSubmit))
     => lcd' # <<>>]_vars

\* a step in which only time passes: the timer checks at the head of the
\* loop, or a keypad read that returns no symbol and the loop's sleep
TimePasses == (pc = "poll" /\ pc' = "key") \/ (KeyDispatched /\ key' = NoKey)

\* C13: with no '#' pressed the controller stays in EnteringPassword with
\* the counter at zero, however long the timers started at boot have run,
\* and a step in which only time passes leaves the buffer, the counter and
\* the mode as they were.
C13_TimeAloneChangesNothing ==
  /\ [](EnteringPassword /\ failedAttempts = 0)
  /\ [][TimePasses => SameBufferCounterMode]_vars

\* the timer checks have just run with 1, 2, 3 in the buffer, the lockout
\* timer exactly at LOCKOUT_TIME_MS and the door timer past OPEN_TIME_MS,
\* both still running since boot
C13_Witness ==
  /\ pc = "key"
  /\ inputPassword = <<"1", "2", "3">>
  /\ lockoutTimer.running /\ lockoutTimer.ms = LOCKOUT_TIME_MS
  /\ doorTimer.running /\ doorTimer.ms >= OPEN_TIME_MS
  /\ EnteringPassword

\* the screen was written by the step that led to this state
Shown(screen) == \E i \in DOMAIN lcd : lcd[i] = screen

\* C14: the door opens only in a step that submits a buffer equal to the
\* credential; a submitted buffer that is a strict prefix of the credential,
\* an extension of it or differs from it in some position is answered with
\* "Wrong Password!", counts as a failed attempt and leaves the door shut.
C14_OnlyExactCredentialOpens ==
  /\ [][(~isDoorOpen /\ isDoorOpen')
           => (KeyDispatched /\ key' = "#" /\ inputPassword = PASSWORD)]_vars
  /\ [][(EnteringPassword /\ WrongSubmit)
           => (/\ ~isDoorOpen'
               /\ lockControl' = 0
               /\ failedAttempts' = failedAttempts + 1
               /\ \E i \in DOMAIN lcd' : lcd'[i] = "Wrong Password!")]_vars

\* the credential followed by one more digit has been submitted and refused
\* as the second failed attempt, after the exact credential had opened the
\* door once
C14_Witness ==
  /\ pc = "poll"
  /\ submitted = <<"1", "2", "3", "4", "5">>
  /\ failedAttempts = 2
  /\ ~isDoorOpen
  /\ lockControl = 0
  /\ ~doorTimer.running
  /\ Shown("Wrong Password!")

\* a step taken while the main loop stands still: neither its position nor
\* its clock moves
OutsideMainLoop == pc' = pc /\ uptime' = uptime

\* C15: wherever the callback runs between the steps of the main loop, it
\* leaves the buffer, the counter, both flags, the actuator, both timers and
\* the ticker as they were and toggles the LED only when it reads the
\* door-open flag set; the door-open flag changes only in steps of the main
\* loop.
C15_CallbackWritesOnlyLed ==
  [][/\ OutsideMainLoop
          => (/\ SameBufferCounterMode
              /\ UNCHANGED <<lockControl, doorTimer, lockoutTimer, ledTicker,
                             fastFlash>>
              /\ led' # led => isDoorOpen)
     /\ isDoorOpen' # isDoorOpen => ~OutsideMainLoop]_vars

\* the callback has switched the LED off between the timer checks and the
\* keypad read of an iteration, with the door open
C15_Witness ==
  /\ led = 0
  /\ isDoorOpen
  /\ lockControl = 1
  /\ ledTicker = FLASH_TOGGLE_MS
  /\ pc = "key"

\* the rows that are driven LOW
ActiveRows == {r \in 0..(ROWS - 1) : rowPins[r] = 0}

\* C16: whenever scanKeys is about to read a column, the row being scanned
\* is the one row driven LOW, and after no pin write are two rows LOW.
C16_OneRowActive ==
  /\ Cardinality(ActiveRows) <= 1
  /\ scan.pc = "read" => ActiveRows = {scan.row}

\* the last column of the last row is about to be read with a key held
C16_Witness ==
  /\ scan.pc = "read"
  /\ scan.row = ROWS - 1
  /\ scan.col = COLS - 1
  /\ ActiveRows = {ROWS - 1}
  /\ contacts # {}

\* C17: when scanKeys returns, by either return statement, and between
\* scans, every row is HIGH.
C17_RowsRestoredOnReturn ==
  scan.pc \in {"return", "idle"} => rowPins = AllHigh

\* scanKeys is about to return a key it found in the third row
C17_Witness ==
  /\ scan.pc = "return"
  /\ scan.ret \in {keys[2][c] : c \in 0..(COLS - 1)}
  /\ rowPins = AllHigh

\* C18: a step that changes the buffer, the counter or the mode writes a
\* screen, and every iteration that starts with the door open or in the
\* lockout writes a screen, in its timer checks or in its key dispatch.
C18_DisplayRefreshedEachIteration ==
  [][/\ ~SameBufferCounterMode => lcd' # <<>>
     /\ (KeyDispatched /\ (isDoorOpen \/ isLockedOut \/ iterTimerEv # "none"))
          => (lcd # <<>> \/ lcd' # <<>>)]_vars

\* C19: whenever the door is open or the controller is locked out, it is
\* later in EnteringPassword again, whatever the user presses meanwhile.
C19_TimeoutsResolve == (isDoorOpen \/ isLockedOut) ~> EnteringPassword

\* the timer checks have just ended a lockout in whose last iteration 'D'
\* was pressed and its handler slept
C19_Witness ==
  /\ pc = "key"
  /\ iterTimerEv = "lockoutReset"
  /\ EnteringPassword
  /\ lastKey = "D"
  /\ sinceLock = 0

\* a wrong submission adds one to the counter, empties the buffer and locks
\* the controller out exactly when the new counter has reached
\* MAX_FAILED_ATTEMPTS
WrongSubmitCounts ==
  (EnteringPassword /\ WrongSubmit)
    => (/\ failedAttempts' = failedAttempts + 1
        /\ inputPassword' = <<>>
        /\ isLockedOut' <=> failedAttempts' >= MAX_FAILED_ATTEMPTS)

\* C20 as stated: every wrong submission counts as above; the wrong
\* submission that follows MAX_FAILED_ATTEMPTS - 1 wrong submissions in a row
\* locks the controller out with the counter at MAX_FAILED_ATTEMPTS, and the
\* one before it does not.
C20_ThirdWrongInARowLocksOut ==
  [][/\ WrongSubmitCounts
     /\ (EnteringPassword /\ WrongSubmit
         /\ consecWrong = MAX_FAILED_ATTEMPTS - 1)
          => (isLockedOut' /\ failedAttempts' = MAX_FAILED_ATTEMPTS)
     /\ (EnteringPassword /\ WrongSubmit
         /\ consecWrong < MAX_FAILED_ATTEMPTS - 1) => ~isLockedOut']_vars

\* C20, amended: the same for wrong submissions in a row with no 'C'
\* counter reset between them.
C20_ThirdWrongSinceResetLocksOut ==
  [][/\ WrongSubmitCounts
     /\ (EnteringPassword /\ WrongSubmit
         /\ wrongSinceReset = MAX_FAILED_ATTEMPTS - 1)
          => (isLockedOut' /\ failedAttempts' = MAX_FAILED_ATTEMPTS)
     /\ (EnteringPassword /\ WrongSubmit
         /\ wrongSinceReset < MAX_FAILED_ATTEMPTS - 1) => ~isLockedOut']_vars

\* the third wrong submission in a row, of the buffer 9, has just locked the
\* controller out
C20_Witness ==
  /\ pc = "poll"
  /\ submitted = <<"9">>
  /\ wrongSinceReset = MAX_FAILED_ATTEMPTS
  /\ failedAttempts = MAX_FAILED_ATTEMPTS
  /\ isLockedOut
  /\ inputPassword = <<>>
  /\ Shown("TOO MANY TRIES!")

\* the closed contacts as (row, column) pairs, and the symbol of the pair
\* that comes first row by row, columns ascending; NoKey if none is closed
ClosedPairs(closed) == {p \in Positions : keys[p[1]][p[2]] \in closed}

RowMajorFirst(closed) ==
  IF ClosedPairs(closed) = {} THEN NoKey
  ELSE LET p == CHOOSE q \in ClosedPairs(closed) :
                  \A o \in ClosedPairs(closed) :
                    q[1] * COLS + q[2] <= o[1] * COLS + o[2]
       IN keys[p[1]][p[2]]

\* C21: for every set of contacts held closed through a scan, scanKeys
\* returns the symbol of the first closed pair in row-major order, and NoKey
\* when no contact is closed.
C21_ScanReturnsRowMajorFirst ==
  scan.pc = "return"
    => (/\ scan.ret = RowMajorFirst(contacts)
        /\ scan.ret = scanKeys(contacts))

\* with '6' and '#' held, scanKeys is about to return '6'
C21_Witness ==
  /\ scan.pc = "return"
  /\ contacts = {"#", "6"}
  /\ scan.ret = "6"

\* C22: a getKey call returns a symbol exactly when the scanned symbol is a
\* key other than the one last reported; it then returns the scanned symbol,
\* records it and resets the debounce timer; when the scanned symbol is the
\* one last reported it returns NoKey and changes nothing, whatever the
\* debounce timer reads.
C22_GetKeyReportsNewSymbolOnly ==
  [][KeyDispatched
     => LET scanned == scanKeys(contacts)
        IN /\ key' # NoKey <=> (scanned # NoKey /\ scanned # lastKey)
           /\ key' # NoKey
                => (/\ key' = scanned
                    /\ lastKey' = scanned
                    /\ debounceTimer'.ms = 0)
           /\ (scanned # NoKey /\ scanned = lastKey)
                => (/\ key' = NoKey
                    /\ lastKey' = lastKey
                    /\ debounceTimer' = debounceTimer)]_vars

\* a call has just returned NoKey for the key last reported, held beyond
\* the debounce window
C22_Witness ==
  /\ pc = "poll"
  /\ key = NoKey
  /\ lastKey # NoKey
  /\ scanKeys(contacts) = lastKey
  /\ debounceTimer.ms > DEBOUNCE_TIME_MS

\* C23: a getKey call whose scan finds no key returns NoKey and clears the
\* last-reported symbol; the symbol stays cleared until the next call, and
\* a call made with it cleared returns whatever key it scans, whatever the
\* debounce timer reads.
C23_NoKeyScanRearms ==
  [][/\ (KeyDispatched /\ scanKeys(contacts) = NoKey)
          => (key' = NoKey /\ lastKey' = NoKey)
     /\ ~KeyDispatched => lastKey' = lastKey
     /\ (KeyDispatched /\ lastKey = NoKey /\ scanKeys(contacts) # NoKey)
          => key' = scanKeys(contacts)]_vars

\* a key is reported by the call that follows a no-key call, no time
\* having passed since the report before
C23_Witness ==
  /\ pc = "key"
  /\ lastKey = NoKey
  /\ contacts # {}
  /\ debounceTimer.ms = 0

\* C24: in EnteringPassword the buffer is the sequence of the digits
\* dispatched since the last clear, submission or lockout expiry, cut at
\* MAX_PASSWORD_LENGTH; the buffer holds digits only, and '*' on a non-empty
\* buffer empties it.
C24_BufferIsDigitsTyped ==
  /\ [](EnteringPassword => inputPassword = typed)
  /\ [](\A i \in DOMAIN inputPassword : inputPassword[i] \in Digits)
  /\ [][(KeyDispatched /\ EnteringPassword /\ key' = "*"
         /\ inputPassword # <<>>) => inputPassword' = <<>>]_vars

\* a ninth digit has been dropped from the full buffer, after the door had
\* been opened and closed and a lockout had expired
C24_Witness ==
  /\ EnteringPassword
  /\ pc = "poll"
  /\ key = "9"
  /\ Len(typed) = MAX_PASSWORD_LENGTH
  /\ inputPassword = typed
  /\ ~doorTimer.running
  /\ ~lockoutTimer.running

\* C25: at every position of the main loop the relay is energized exactly
\* when the door-open flag is set.
C25_ActuatorFollowsDoorFlag == (lockControl = 1) <=> isDoorOpen

\* the credential has just been submitted and the door opened
C25_Witness ==
  /\ pc = "poll"
  /\ key = "#"
  /\ submitted = PASSWORD
  /\ isDoorOpen
  /\ lockControl = 1
  /\ failedAttempts = 0

\* C26: the timer checks that find the door open for OPEN_TIME_MS or longer
\* leave the relay off, the ticker detached, the LED on, the door-open flag
\* clear and the controller in EnteringPassword.
C26_ExpiredDoorIsClosed ==
  [][(pc = "poll" /\ pc' = "key" /\ isDoorOpen
      /\ sinceGrant >= OPEN_TIME_MS)
     => (/\ lockControl' = 0
         /\ ledTicker' = 0
         /\ led' = 1
         /\ ~isDoorOpen'
         /\ ~isLockedOut'
         /\ ~doorTimer'.running)]_vars

\* the timer checks have just closed the door and left the LED on
C26_Witness ==
  /\ pc = "key"
  /\ iterTimerEv = "doorClose"
  /\ EnteringPassword
  /\ lockControl = 0
  /\ ledTicker = 0
  /\ led = 1
  /\ sinceGrant = 0

\* C28: in every state closeLock run twice leaves what closeLock run once
\* leaves: flag clear, relay off, ticker detached, LED on.
C28_CloseLockIdempotent ==
  LET once == closeLock(Cur)
  IN /\ closeLock(once) = once
     /\ ~once.isDoorOpen
     /\ once.lockControl = 0
     /\ once.ledTicker = 0
     /\ once.led = 1
     /\ ~isDoorOpen => once = [Cur EXCEPT !.doorTimer = TimerStop(@)]

\* the door is open with the LED off: closeLock has all four outputs to
\* change
C28_Witness ==
  /\ isDoorOpen
  /\ led = 0
  /\ lockControl = 1
  /\ ledTicker # 0
  /\ closeLock(Cur) # Cur

\* C27: the timer checks that find the controller locked out for
\* LOCKOUT_TIME_MS or longer leave the counter 0, the buffer empty (whatever
\* was typed during the lockout) and the controller in EnteringPassword.
C27_ExpiredLockoutIsReset ==
  [][(pc = "poll" /\ pc' = "key" /\ isLockedOut
      /\ sinceLock >= LOCKOUT_TIME_MS)
     => (/\ failedAttempts' = 0
         /\ inputPassword' = <<>>
         /\ ~isLockedOut'
         /\ ~isDoorOpen'
         /\ lockControl' = 0)]_vars

\* the lockout has just ended; the last symbol delivered, during the
\* lockout, was the digit '1', which the reset discarded
C27_Witness ==
  /\ pc = "key"
  /\ iterTimerEv = "lockoutReset"
  /\ lastKey = "1"
  /\ inputPassword = <<>>
  /\ failedAttempts = 0
  /\ EnteringPassword

\* C29: a letter key dispatched in EnteringPassword leaves the buffer, the
\* two flags, the relay and the LED alone; 'C' sets the counter to 0 and no
\* other letter changes it; 'B' flips the ticker between its two periods and
\* no other letter touches the ticker.
C29_LetterKeysFrame ==
  [][(KeyDispatched /\ EnteringPassword /\ key' \in Letters)
     => (/\ inputPassword' = inputPassword
         /\ isDoorOpen' = isDoorOpen
         /\ isLockedOut' = isLockedOut
         /\ lockControl' = lockControl
         /\ led' = led
         /\ doorTimer'.running = doorTimer.running
         /\ lockoutTimer'.running = lockoutTimer.running
         /\ failedAttempts' = (IF key' = "C" THEN 0 ELSE failedAttempts)
         /\ key' # "B" => (ledTicker' = ledTicker /\ fastFlash' = fastFlash)
         /\ key' = "B" => (/\ fastFlash' = ~fastFlash
                           /\ ledTicker' = IF fastFlash THEN FLASH_TOGGLE_MS
                                                        ELSE FAST_TOGGLE_MS))]_vars

\* 'C' has just reset a non-zero counter while digits were in the buffer
C29_Witness ==
  /\ pc = "poll"
  /\ key = "C"
  /\ Shown("Attempts Reset")
  /\ failedAttempts = 0
  /\ inputPassword # <<>>
  /\ EnteringPassword

\* C30: until the first pause of the main loop the buffer is empty, the
\* counter is 0, both flags are clear, the relay is off, the ticker is
\* detached and the LED is on.
C30_StartsInEnteringPassword ==
  uptime = 0 => (/\ inputPassword = <<>>
                 /\ failedAttempts = 0
                 /\ ~isDoorOpen
                 /\ ~isLockedOut
                 /\ lockControl = 0
                 /\ ledTicker = 0
                 /\ led = 1)

\* the first timer checks have run, no symbol has been dispatched yet
C30_Witness ==
  /\ pc = "key"
  /\ uptime = 0
  /\ key = NoKey
  /\ iterTimerEv = "none"
  /\ EnteringPassword
  /\ inputPassword = <<>>
  /\ led = 1

\* C31: the step in which the controller becomes locked out writes the
\* display and changes the indicator: the LED level, or the ticker that
\* drives it.
C31_LockoutShownOnDisplayAndIndicator ==
  [][(~isLockedOut /\ isLockedOut')
     => (/\ Shown("TOO MANY TRIES!")'
         /\ (led' # led \/ ledTicker' # ledTicker))]_vars

\* C31, the display half alone: the step in which the controller becomes
\* locked out shows "TOO MANY TRIES!" and then the lockout screen.
C31_LockoutShownOnDisplay ==
  [][(~isLockedOut /\ isLockedOut')
     => (Shown("TOO MANY TRIES!")' /\ Shown("LOCKED OUT!")')]_vars

\* C32: at every position of the main loop the counter of failed attempts
\* is between 0 and MAX_FAILED_ATTEMPTS, and when it equals
\* MAX_FAILED_ATTEMPTS the controller is locked out.
C32_CounterBoundedAndFullMeansLockedOut ==
  /\ failedAttempts \in 0..MAX_FAILED_ATTEMPTS
  /\ failedAttempts = MAX_FAILED_ATTEMPTS => isLockedOut

\* the wrong submission that filled the counter has just been dispatched
C32_Witness ==
  /\ pc = "poll"
  /\ key = "#"
  /\ failedAttempts = MAX_FAILED_ATTEMPTS
  /\ isLockedOut
  /\ Shown("Wrong Password!")

\* at the head of the loop body or at the keypad read
AtLoopBoundary == pc \in {"poll", "key"}

\* C33: at the head of every iteration and at every keypad read, a closed
\* door has its LED on, wherever the callback ran, also inside closeLock()
\* and also with the ticker attached by 'B' while the door is closed; a step
\* of the callback changes the LED only when the door-open flag is set.
C33_ClosedDoorLedOn ==
  /\ []((AtLoopBoundary /\ ~isDoorOpen) => led = 1)
  /\ [][(OutsideMainLoop /\ led' # led) => isDoorOpen]_vars

\* 'B' has just attached the ticker with the door closed, in the iteration
\* whose timer checks closed the door
C33_Witness ==
  /\ pc = "poll"
  /\ key = "B"
  /\ ~isDoorOpen
  /\ ledTicker = FAST_TOGGLE_MS
  /\ led = 1
  /\ iterTimerEv = "doorClose"

\* C34: at every position of the main loop at which the door is open the
\* buffer is empty, and it is empty after the timer checks that close the
\* door.
C34_OpenDoorEmptyBuffer ==
  /\ [](isDoorOpen => inputPassword = <<>>)
  /\ [][(isDoorOpen /\ ~isDoorOpen') => inputPassword' = <<>>]_vars

\* a digit has just been delivered while the door is open and was ignored
C34_Witness ==
  /\ pc = "poll"
  /\ key = "1"
  /\ isDoorOpen
  /\ inputPassword = <<>>
  /\ sinceGrant > 0

\* every reading the debounce timer can give
TimerReadings == 0..DebounceTimerCap

\* C36: whatever the debounce timer reads, a call of getKey returns the
\* same symbol and leaves the same last-reported symbol: every call made
\* returns and leaves what it would with any other reading, so two runs on
\* the same scanned symbols agree call by call.
C36_DebounceTimerHasNoInfluence ==
  [][(pc = "key" /\ pc' = "poll")
     => \A t \in TimerReadings :
          LET other == getKey(scanKeys(contacts), lastKey, t)
          IN key' = other.ret /\ lastKey' = other.last]_vars

\* a held key has just been scanned again with the timer past the window:
\* nothing is returned, as within the window
C36_Witness ==
  /\ pc = "poll"
  /\ key = NoKey
  /\ lastKey # NoKey
  /\ lastKey = scanKeys(contacts)
  /\ debounceTimer.ms > DEBOUNCE_TIME_MS

C35_HeldThroughCloseNotDispatched ==
  [][(KeyDispatched /\ ~isDoorOpen /\ heldOpen' # {})
     => (key' \notin heldOpen' /\ SameBufferCounterMode)]_vars

\* C35 for a key held alone: the same with no other key down at this
\* keypad read or the one before it.
C35_HeldAloneThroughCloseNotDispatched ==
  [][(/\ KeyDispatched /\ ~isDoorOpen /\ heldOpen' # {}
      /\ Cardinality(contacts) <= 1 /\ Cardinality(contacts') <= 1)
     => (key' \notin heldOpen' /\ SameBufferCounterMode)]_vars

\* a key held since the door was open is still down at a keypad read made
\* after the auto-close
C35_HeldAfterClose ==
  /\ pc = "poll"
  /\ ~isDoorOpen
  /\ heldOpen # {}
  /\ iterTimerEv = "doorClose"

====
